---- MODULE Spec2Model ----
(***************************************************************************)
(* Model of grpy-request-client: the SessionManager singleton, the         *)
(* RequestFactory convenience paths and the RequestManager scoped          *)
(* executor (session ownership, execute_request status classification).   *)
(***************************************************************************)
EXTENDS Integers, Sequences, FiniteSets, TLC

\* ---------------------------------------------------------------- bounds
NumManagers == 1
MaxSessions == 2
NumTasks == 2
MaxDepth == 2
NumConfigs == 2

Managers == 1..NumManagers
SessionIds == 1..MaxSessions
Tasks == 1..NumTasks
Configs == 1..NumConfigs

\* Python's None for a session reference, and for RequestManager._exit_stack
None == 0
NoStack == [set |-> FALSE, sessions |-> <<>>]
Stack(seq) == [set |-> TRUE, sessions |-> seq]

\* Statuses and reason phrases the transport is made to answer with
Statuses == {199, 200, 299, 300, 399, 400, 401, 403, 404, 499, 500, 599, 600}
Reasons == {"Not Found", "Internal Server Error"}

\* Failures session.request can raise, by exception class
TransportFailures == {"ClientConnectorSSLError", "ClientConnectionError", "TimeoutError", "Exception"}

VARIABLES
    nextId,         \* identity of the next ClientSession object to be constructed
    closed,         \* set of sessions whose .closed reports True
    closeInvokers,  \* per session: who has invoked close() on it
    external,       \* sessions carrying the _external = True mark
    callerHeld,     \* sessions handed out to callers by the SessionManager
    sharedSession,  \* SessionManager._shared_session
    taskPc,         \* close_shared_session callers: "idle" or suspended in "close_await"
    sharedReturned, \* session most recently returned by get_shared_session
    bound,          \* how each RequestManager was constructed
    supplied,       \* the session passed to RequestManager.__init__
    session,        \* RequestManager.session
    ownsSession,    \* RequestManager._owns_session
    exitStack,      \* RequestManager._exit_stack: NoStack or the registered sessions
    depth,          \* number of scopes of the manager currently entered
    nested,         \* the manager was entered again inside its current scope
    requestData,    \* RequestManager.requestData: the RequestModel it was given
    config,         \* the RequestModel objects and their fields
    defaultHeaders, \* the class attribute RequestModel.DEFAULT_HEADERS (one dict object)
    handed,         \* per task: the session get_shared_session gave it since the last close
    sessionOpts,    \* per session: the timeout and options it was constructed with
    last            \* the operation that ran last, with its observable result

vars == <<nextId, closed, closeInvokers, external, callerHeld, sharedSession, taskPc,
          sharedReturned, bound, supplied, session, ownsSession,
          exitStack, depth, nested, requestData, config, defaultHeaders, handed,
          sessionOpts, last>>

sessionVars == <<nextId, closed, closeInvokers, external, callerHeld, sharedSession,
                 taskPc, sharedReturned, handed, sessionOpts>>
managerVars == <<bound, supplied, session, ownsSession, exitStack, depth, nested,
                 requestData>>
modelVars == <<config, defaultHeaders>>

Created == 1..(nextId - 1)

\* ---------------------------------------------------------------- RequestModel
\* dictionaries (headers, params, the JSON body) are functions from keys to values
EmptyMap == [k \in {} |-> ""]
Map(keys, v) == [k \in keys |-> v]

\* an update that replaces the dictionary by the new one
OverlayReplace(d, h) == h

\* dict.update / {**d, **h}: the keys of h take h's values, the other keys keep d's
Overlay(d, h) ==
    [k \in DOMAIN d \cup DOMAIN h |-> IF k \in DOMAIN h THEN h[k] ELSE d[k]]

VALID_METHODS == {"GET", "POST", "PUT", "DELETE", "PATCH", "HEAD"}

DEFAULT_USER_AGENT == "grpy-request-client/version"

\* RequestModel.DEFAULT_HEADERS as the class body defines it
DEFAULT_HEADERS ==
    [k \in {"Accept", "Content-Type", "User-Agent"} |->
        IF k = "User-Agent" THEN DEFAULT_USER_AGENT ELSE "application/json"]

\* Optional[Dict]: None (present = FALSE) or a dictionary, the empty one included
NoData == [present |-> FALSE, body |-> EmptyMap]
Data(body) == [present |-> TRUE, body |-> body]

\* URLs are sequences of tokens: the origin "scheme://host", then "/" separators
\* and path segments
Origin == "https://api.example.com"

\* timeouts are counted in tenths of a second; the Field default is 30 seconds
DefaultTimeout == 300

\* the keyword arguments of RequestModel(...): base_url is required, an omitted
\* field takes its Field default
Fields(base) ==
    [base_url |-> base, method |-> "GET", endpoint |-> <<>>, timeout |-> DefaultTimeout,
     params |-> EmptyMap, headers |-> EmptyMap, data |-> NoData]

NoFields ==
    [base_url |-> <<>>, method |-> "", endpoint |-> <<>>, timeout |-> 0,
     params |-> EmptyMap, headers |-> EmptyMap, data |-> NoData]

\* the request_data fixture: RequestModel(base_url="https://api.example.com/")
FixtureFields == Fields(<<Origin, "/">>)

\* a validator that accepts lower-case spellings as well
ValidMethodAnyCase(v) == v \in VALID_METHODS \cup {"get", "post"}

\* validate_method: membership in VALID_METHODS
ValidMethod(v) == v \in VALID_METHODS

\* a timeout field declared with ge=0
ValidTimeoutNonNegative(t) == t >= 0

\* timeout: float = Field(default=30, gt=0)
ValidTimeout(t) == t > 0

\* a merge in which the defaults override the caller's headers
MergeHeadersDefaultsWin(defaults, h) == Overlay(h, defaults)

\* __init__: headers = DEFAULT_HEADERS.copy(); headers.update(data["headers"])
\* (an absent or empty "headers" argument leaves the copy as it is)
MergeHeaders(defaults, h) == IF DOMAIN h = {} THEN defaults ELSE Overlay(defaults, h)

\* the field values of a RequestModel object that passed validation
Built(f, defaults) ==
    [built |-> TRUE, base_url |-> f.base_url, method |-> f.method, endpoint |-> f.endpoint,
     timeout |-> f.timeout, params |-> f.params,
     headers |-> MergeHeaders(defaults, f.headers), headersRef |-> "own",
     data |-> f.data]

\* a RequestModel slot in which no object has been constructed
NoConfig ==
    [built |-> FALSE, base_url |-> <<>>, method |-> "", endpoint |-> <<>>, timeout |-> 0,
     params |-> EmptyMap, headers |-> EmptyMap, headersRef |-> "own", data |-> NoData]

\* str(HttpUrl): a URL without a path is written with the path "/"
UrlStr(b) == IF Len(b) = 1 THEN b \o <<"/">> ELSE b

\* position of the last "/" of a URL that has a path
LastSlash(u) ==
    CHOOSE i \in 1..Len(u) : u[i] = "/" /\ \A j \in (i + 1)..Len(u) : u[j] # "/"

\* a join that writes the endpoint after the base
UrlJoinConcat(base, ep) == base \o ep

\* urllib.parse.urljoin(base, ep) for a base without query or fragment and an
\* endpoint that is a plain relative or absolute path
UrlJoin(base, ep) ==
    IF ep = <<>> THEN base
    ELSE IF Head(ep) = "/" THEN <<Head(base)>> \o ep
    ELSE SubSeq(base, 1, LastSlash(base)) \o ep

\* a body sent only when the dictionary is non-empty
JsonIncludedIfTruthy(data) == data.present /\ DOMAIN data.body # {}

\* "if self.requestData.data is not None"
JsonIncluded(data) == data.present

\* the arguments of session.request(method=..., url=..., **kwargs)
NoCall ==
    [method |-> "", url |-> <<>>, params |-> EmptyMap, headers |-> EmptyMap,
     timeout |-> 0, json |-> NoData]

BuildCall(cfg, hdrs) ==
    [method |-> cfg.method, url |-> UrlJoin(UrlStr(cfg.base_url), cfg.endpoint),
     params |-> cfg.params, headers |-> hdrs, timeout |-> cfg.timeout,
     json |-> IF JsonIncluded(cfg.data) THEN cfg.data ELSE NoData]

\* the dictionary a RequestModel's headers attribute refers to
Headers(c) ==
    IF config[c].headersRef = "DEFAULT_HEADERS" THEN defaultHeaders ELSE config[c].headers

\* ---------------------------------------------------------------- session arguments
\* the arguments a session is constructed with; NoArgs for a session not constructed
NoArgs == [timeout |-> 0, options |-> EmptyMap]

\* create_session(timeout=30, **kwargs): ClientTimeout(total=timeout), the connector
\* and session options passed through
SessionArgs(timeout, options) == [timeout |-> timeout, options |-> options]

\* the defaults of get_shared_session / create_session: timeout = 30, no options
DefaultArgs == SessionArgs(DefaultTimeout, EmptyMap)

\* ClientSession() without arguments: aiohttp's default total timeout of 5 minutes
TransportDefaultArgs == SessionArgs(3000, EmptyMap)

\* a get_shared_session that applies its arguments to the stored session
ArgsAfterGetReapplied(need, existing, args) == args

\* get_shared_session: the arguments reach create_session only when a session is
\* created; a stored open session is returned as it is
ArgsAfterGet(need, existing, args) == IF need THEN args ELSE existing

\* ---------------------------------------------------------------- results
NoError == [type |-> "none", kind |-> "none", status |-> 0, prefix |-> "", reason |-> ""]
NoResult == [kind |-> "none", status |-> 0, reason |-> "", type |-> "none"]

NoOp ==
    [op |-> "init", who |-> 0, ret |-> None, created |-> FALSE, exc |-> FALSE,
     outcome |-> "none", transport |-> NoResult, response |-> NoResult,
     raised |-> NoError,
     calls |-> 0, target |-> None, log |-> <<>>,
     input |-> NoFields, before |-> EmptyMap, call |-> NoCall, args |-> NoArgs,
     logged |-> 0]

Op(name, who) == [NoOp EXCEPT !.op = name, !.who = who]

\* ---------------------------------------------------------------- SessionManager
\* a get_shared_session that constructs on every call
NeedsCreateAlways(shared, closedSet) == TRUE

\* a get_shared_session that creates only when nothing is stored
NeedsCreateWhenMissing(shared, closedSet) == shared = None

\* the condition of get_shared_session under which a session is created
NeedsCreate(shared, closedSet) == shared = None \/ shared \in closedSet

\* a guard that does not look at .closed
CloseGuardStoredOnly(shared, closedSet) == shared # None

\* the guard of close_shared_session
CloseGuard(shared, closedSet) == shared # None /\ shared \notin closedSet

\* create_session: a ClientSession object that did not exist before
NewSession(next) == next

\* get_shared_session: the instance returned (and stored)
SharedResult(shared, closedSet, next) ==
    IF NeedsCreate(shared, closedSet) THEN NewSession(next) ELSE shared

\* a create_session that hands out the stored shared session when there is one
CreateSessionCached ==
    /\ sharedSession # None \/ nextId <= MaxSessions
    /\ nextId' = IF sharedSession # None THEN nextId ELSE nextId + 1
    /\ callerHeld' = callerHeld \cup {IF sharedSession # None THEN sharedSession ELSE nextId}
    /\ last' = [Op("create_session", 0) EXCEPT
                  !.ret = IF sharedSession # None THEN sharedSession ELSE nextId,
                  !.created = (sharedSession = None)]
    /\ sessionOpts' = IF sharedSession # None THEN sessionOpts
                      ELSE [sessionOpts EXCEPT ![nextId] = DefaultArgs]
    /\ UNCHANGED <<closed, closeInvokers, external, sharedSession, taskPc, sharedReturned,
                   handed>>
    /\ UNCHANGED managerVars
    /\ UNCHANGED modelVars

\* SessionManager.create_session(): always constructs, never stores
CreateSession ==
    /\ nextId <= MaxSessions
    /\ nextId' = nextId + 1
    /\ callerHeld' = callerHeld \cup {NewSession(nextId)}
    /\ last' = [Op("create_session", 0) EXCEPT !.ret = NewSession(nextId), !.created = TRUE]
    /\ sessionOpts' = [sessionOpts EXCEPT ![NewSession(nextId)] = DefaultArgs]
    /\ UNCHANGED <<closed, closeInvokers, external, sharedSession, taskPc,
                   sharedReturned, handed>>
    /\ UNCHANGED managerVars
    /\ UNCHANGED modelVars

\* SessionManager.get_shared_session() / get_session() / RequestFactory.get_shared_session()
GetSharedSession ==
    LET need == NeedsCreate(sharedSession, closed)
        ret == SharedResult(sharedSession, closed, nextId)
    IN  /\ need => nextId <= MaxSessions
        /\ sharedSession' = ret
        /\ nextId' = IF need THEN nextId + 1 ELSE nextId
        /\ callerHeld' = callerHeld \cup {ret}
        /\ sharedReturned' = ret
        /\ sessionOpts' = [sessionOpts EXCEPT
                             ![ret] = ArgsAfterGet(need, sessionOpts[ret], DefaultArgs)]
        /\ last' = [Op("get_shared_session", 0) EXCEPT !.ret = ret, !.created = need,
                                                       !.target = sharedReturned]
        /\ UNCHANGED <<closed, closeInvokers, external, taskPc, handed>>
        /\ UNCHANGED managerVars
        /\ UNCHANGED modelVars

\* get_shared_session(timeout, **kwargs) called with arguments of the caller's choice
GetSharedSessionWith(timeout, options) ==
    LET need == NeedsCreate(sharedSession, closed)
        ret == SharedResult(sharedSession, closed, nextId)
        args == SessionArgs(timeout, options)
    IN  /\ need => nextId <= MaxSessions
        /\ sharedSession' = ret
        /\ nextId' = IF need THEN nextId + 1 ELSE nextId
        /\ callerHeld' = callerHeld \cup {ret}
        /\ sharedReturned' = ret
        /\ sessionOpts' = [sessionOpts EXCEPT
                             ![ret] = ArgsAfterGet(need, sessionOpts[ret], args)]
        /\ last' = [Op("get_shared_session", 0) EXCEPT !.ret = ret, !.created = need,
                                                       !.target = sharedReturned,
                                                       !.args = args]
        /\ UNCHANGED <<closed, closeInvokers, external, taskPc, handed>>
        /\ UNCHANGED managerVars
        /\ UNCHANGED modelVars

\* a get_shared_session that constructs a session for every caller
TaskGetSharedSessionFresh(t) ==
    /\ taskPc[t] = "idle"
    /\ nextId <= MaxSessions
    /\ sharedSession' = NewSession(nextId)
    /\ nextId' = nextId + 1
    /\ callerHeld' = callerHeld \cup {NewSession(nextId)}
    /\ sharedReturned' = NewSession(nextId)
    /\ sessionOpts' = [sessionOpts EXCEPT ![NewSession(nextId)] = DefaultArgs]
    /\ handed' = [handed EXCEPT ![t] = NewSession(nextId)]
    /\ last' = [Op("get_shared_session", t) EXCEPT !.ret = NewSession(nextId),
                                                   !.created = TRUE,
                                                   !.target = sharedReturned]
    /\ UNCHANGED <<closed, closeInvokers, external, taskPc>>
    /\ UNCHANGED managerVars
    /\ UNCHANGED modelVars

\* get_shared_session() called by one of several concurrent tasks: the method is
\* synchronous, so the whole call is one step of the event loop
TaskGetSharedSession(t) ==
    /\ taskPc[t] = "idle"
    /\ LET need == NeedsCreate(sharedSession, closed)
           ret == SharedResult(sharedSession, closed, nextId)
       IN  /\ need => nextId <= MaxSessions
           /\ sharedSession' = ret
           /\ nextId' = IF need THEN nextId + 1 ELSE nextId
           /\ callerHeld' = callerHeld \cup {ret}
           /\ sharedReturned' = ret
           /\ sessionOpts' = [sessionOpts EXCEPT
                                ![ret] = ArgsAfterGet(need, sessionOpts[ret], DefaultArgs)]
           /\ handed' = [handed EXCEPT ![t] = ret]
           /\ last' = [Op("get_shared_session", t) EXCEPT !.ret = ret, !.created = need,
                                                          !.target = sharedReturned]
    /\ UNCHANGED <<closed, closeInvokers, external, taskPc>>
    /\ UNCHANGED managerVars
    /\ UNCHANGED modelVars

\* a session whose .closed still reports False while its close() is suspended
ClosedOnInvokeLate(closedSet, s) == closedSet

\* await session.close(): the session reports closed from the moment close() is
\* invoked, before the coroutine first suspends
ClosedOnInvoke(closedSet, s) == closedSet \cup {s}

\* close_shared_session() up to its suspension point: the guard, then the call of
\* session.close(), which reports the session closed before it first suspends
CloseSharedBegin(t) ==
    /\ taskPc[t] = "idle"
    /\ IF CloseGuard(sharedSession, closed)
       THEN /\ closed' = ClosedOnInvoke(closed, sharedSession)
            /\ closeInvokers' = [closeInvokers EXCEPT
                                   ![sharedSession] = @ \cup {<<"SessionManager", 0>>}]
            /\ taskPc' = [taskPc EXCEPT ![t] = "close_await"]
            /\ handed' = [u \in Tasks |-> None]
            /\ last' = [Op("close_shared_begin", t) EXCEPT !.target = sharedSession,
                                                           !.calls = 1]
       ELSE /\ last' = [Op("close_shared_noop", t) EXCEPT !.target = sharedSession]
            /\ UNCHANGED <<closed, closeInvokers, taskPc, handed>>
    /\ UNCHANGED <<nextId, external, callerHeld, sharedSession, sharedReturned,
                   sessionOpts>>
    /\ UNCHANGED managerVars
    /\ UNCHANGED modelVars

\* close_shared_session() resumed after the await: clears the stored reference
CloseSharedEnd(t) ==
    /\ taskPc[t] = "close_await"
    /\ sharedSession' = None
    /\ taskPc' = [taskPc EXCEPT ![t] = "idle"]
    /\ handed' = [u \in Tasks |-> None]
    /\ last' = [Op("close_shared_end", t) EXCEPT !.target = sharedSession, !.calls = 1]
    /\ UNCHANGED <<nextId, closed, closeInvokers, external, callerHeld, sharedReturned,
                   sessionOpts>>
    /\ UNCHANGED managerVars
    /\ UNCHANGED modelVars

\* the caller closes a session it holds (session.close() outside this package)
CallerClose(s) ==
    /\ s \in callerHeld
    /\ s \notin closed
    /\ closed' = closed \cup {s}
    /\ closeInvokers' = [closeInvokers EXCEPT ![s] = @ \cup {<<"caller", 0>>}]
    /\ handed' = [u \in Tasks |-> IF s \in {handed[u], sharedSession} THEN None ELSE handed[u]]
    /\ last' = [Op("caller_close", 0) EXCEPT !.target = s]
    /\ UNCHANGED <<nextId, external, callerHeld, sharedSession, taskPc, sharedReturned,
                   sessionOpts>>
    /\ UNCHANGED managerVars
    /\ UNCHANGED modelVars

\* ---------------------------------------------------------------- RequestManager
\* a constructor that takes ownership of whatever it is given
OwnsSessionAlways(s) == TRUE

\* RequestManager.__init__: _owns_session = session is None
OwnsSession(s) == s = None

\* RequestManager(requestData, session): the constructor's assignments
RequestManagerInit(m, s, how) ==
    /\ bound[m] = "unbuilt"
    /\ bound' = [bound EXCEPT ![m] = how]
    /\ supplied' = [supplied EXCEPT ![m] = s]
    /\ session' = [session EXCEPT ![m] = s]
    /\ ownsSession' = [ownsSession EXCEPT ![m] = OwnsSession(s)]
    /\ \E c \in Configs :
          /\ config[c].built
          /\ requestData' = [requestData EXCEPT ![m] = c]
    /\ UNCHANGED <<exitStack, depth, nested>>
    /\ UNCHANGED modelVars

\* RequestManager(requestData) or RequestManager(requestData, session=s) by the caller
NewRequestManager(m, s) ==
    /\ s \in {None} \cup callerHeld
    /\ RequestManagerInit(m, s, IF s = None THEN "none" ELSE "supplied")
    /\ last' = [Op("new_manager", m) EXCEPT !.ret = s]
    /\ UNCHANGED sessionVars

\* RequestFactory.create_request_manager(request_data, session, logger, use_shared_session)
CreateRequestManager(m, s, useShared) ==
    /\ s \in {None} \cup callerHeld
    /\ IF s = None /\ useShared
       THEN LET need == NeedsCreate(sharedSession, closed)
                ret == SharedResult(sharedSession, closed, nextId)
            IN  /\ need => nextId <= MaxSessions
                /\ sharedSession' = ret
                /\ nextId' = IF need THEN nextId + 1 ELSE nextId
                /\ callerHeld' = callerHeld \cup {ret}
                /\ sharedReturned' = ret
                /\ sessionOpts' = [sessionOpts EXCEPT
                                     ![ret] = ArgsAfterGet(need, sessionOpts[ret], DefaultArgs)]
                /\ RequestManagerInit(m, ret, "shared")
                /\ last' = [Op("create_request_manager", m) EXCEPT !.ret = ret,
                                                                  !.created = need]
       ELSE /\ RequestManagerInit(m, s, IF s = None THEN "none" ELSE "supplied")
            /\ last' = [Op("create_request_manager", m) EXCEPT !.ret = s]
            /\ UNCHANGED <<sharedSession, nextId, callerHeld, sharedReturned, sessionOpts>>
    /\ UNCHANGED <<closed, closeInvokers, external, taskPc, handed>>

\* RequestFactory.create_request_manager_with_shared_session(request_data)
CreateRequestManagerWithSharedSession(m) ==
    LET need == NeedsCreate(sharedSession, closed)
        ret == SharedResult(sharedSession, closed, nextId)
    IN  /\ need => nextId <= MaxSessions
        /\ sharedSession' = ret
        /\ nextId' = IF need THEN nextId + 1 ELSE nextId
        /\ callerHeld' = callerHeld \cup {ret}
        /\ sharedReturned' = ret
        /\ sessionOpts' = [sessionOpts EXCEPT
                             ![ret] = ArgsAfterGet(need, sessionOpts[ret], DefaultArgs)]
        /\ RequestManagerInit(m, ret, "shared")
        /\ last' = [Op("create_request_manager_with_shared_session", m)
                      EXCEPT !.ret = ret, !.created = need]
        /\ UNCHANGED <<closed, closeInvokers, external, taskPc, handed>>

\* RequestFactory.create_request_manager_with_new_session(request_data)
CreateRequestManagerWithNewSession(m) ==
    /\ nextId <= MaxSessions
    /\ nextId' = nextId + 1
    /\ RequestManagerInit(m, NewSession(nextId), "new")
    /\ sessionOpts' = [sessionOpts EXCEPT ![NewSession(nextId)] = DefaultArgs]
    /\ last' = [Op("create_request_manager_with_new_session", m)
                  EXCEPT !.ret = NewSession(nextId), !.created = TRUE]
    /\ UNCHANGED <<closed, closeInvokers, external, callerHeld, sharedSession, taskPc,
                   sharedReturned, handed>>

\* an __aenter__ that registers the session on the exit stack in both branches
AenterRegistersAny(m) ==
    /\ bound[m] # "unbuilt"
    /\ depth[m] < MaxDepth
    /\ IF session[m] = None
       THEN /\ nextId <= MaxSessions
            /\ nextId' = nextId + 1
            /\ session' = [session EXCEPT ![m] = nextId]
            /\ ownsSession' = [ownsSession EXCEPT ![m] = TRUE]
            /\ exitStack' = [exitStack EXCEPT ![m] = Stack(<<nextId>>)]
            /\ last' = [Op("aenter", m) EXCEPT !.ret = nextId, !.created = TRUE]
            /\ sessionOpts' = [sessionOpts EXCEPT ![nextId] = TransportDefaultArgs]
            /\ UNCHANGED external
       ELSE /\ external' = external \cup {session[m]}
            /\ exitStack' = [exitStack EXCEPT ![m] = Stack(<<session[m]>>)]
            /\ last' = [Op("aenter", m) EXCEPT !.ret = session[m]]
            /\ UNCHANGED <<nextId, session, ownsSession, sessionOpts>>
    /\ nested' = [nested EXCEPT ![m] = (nested[m] \/ depth[m] > 0)]
    /\ depth' = [depth EXCEPT ![m] = @ + 1]
    /\ UNCHANGED <<closed, closeInvokers, callerHeld, sharedSession, taskPc,
                   sharedReturned, handed, bound, supplied, requestData>>
    /\ UNCHANGED modelVars

\* __aenter__: a fresh exit stack; a ClientSession is constructed and registered
\* on the stack only when the manager has no session
Aenter(m) ==
    /\ bound[m] # "unbuilt"
    /\ depth[m] < MaxDepth
    /\ IF session[m] = None
       THEN /\ nextId <= MaxSessions
            /\ nextId' = nextId + 1
            /\ session' = [session EXCEPT ![m] = NewSession(nextId)]
            /\ ownsSession' = [ownsSession EXCEPT ![m] = TRUE]
            /\ exitStack' = [exitStack EXCEPT ![m] = Stack(<<NewSession(nextId)>>)]
            /\ last' = [Op("aenter", m) EXCEPT !.ret = NewSession(nextId), !.created = TRUE]
            /\ sessionOpts' = [sessionOpts EXCEPT ![NewSession(nextId)] = TransportDefaultArgs]
            /\ UNCHANGED external
       ELSE /\ external' = external \cup {session[m]}
            /\ exitStack' = [exitStack EXCEPT ![m] = Stack(<<>>)]
            /\ last' = [Op("aenter", m) EXCEPT !.ret = session[m]]
            /\ UNCHANGED <<nextId, session, ownsSession, sessionOpts>>
    /\ nested' = [nested EXCEPT ![m] = (nested[m] \/ depth[m] > 0)]
    /\ depth' = [depth EXCEPT ![m] = @ + 1]
    /\ UNCHANGED <<closed, closeInvokers, callerHeld, sharedSession, taskPc,
                   sharedReturned, handed, bound, supplied, requestData>>
    /\ UNCHANGED modelVars

\* an __aexit__ that never closes the exit stack
AexitClosesNothing(stack) == {}

\* __aexit__, try part: the sessions _exit_stack.aclose() closes
AexitCloses(stack) ==
    IF ~stack.set THEN {} ELSE {stack.sessions[i] : i \in 1..Len(stack.sessions)}

\* __aexit__, finally part: the session reference afterwards
AexitSession(owns, s) == IF owns THEN None ELSE s

\* an __aexit__ that returns True
AexitSuppressesAlways(exc) == TRUE

\* __aexit__ has no return statement: its result is None, which suppresses nothing
AexitSuppresses(exc) == FALSE

\* __aexit__(exc_type, exc_val, exc_tb): returns None, so an exception passed in
\* keeps propagating
Aexit(m, exc) ==
    /\ depth[m] > 0
    /\ closed' = closed \cup AexitCloses(exitStack[m])
    /\ closeInvokers' = [s \in SessionIds |->
                           IF s \in AexitCloses(exitStack[m])
                           THEN closeInvokers[s] \cup {<<"RequestManager", m>>}
                           ELSE closeInvokers[s]]
    /\ session' = [session EXCEPT ![m] = AexitSession(ownsSession[m], session[m])]
    /\ exitStack' = [exitStack EXCEPT ![m] = NoStack]
    /\ depth' = [depth EXCEPT ![m] = @ - 1]
    /\ nested' = [nested EXCEPT ![m] = (nested[m] /\ depth[m] > 1)]
    /\ last' = [Op("aexit", m) EXCEPT !.exc = exc, !.target = session[m],
                                      !.outcome = IF exc /\ ~AexitSuppresses(exc)
                                                  THEN "raised" ELSE "none"]
    /\ UNCHANGED <<nextId, external, callerHeld, sharedSession, taskPc, sharedReturned,
                   handed, sessionOpts, bound, supplied, ownsSession, requestData>>
    /\ UNCHANGED modelVars

\* ---------------------------------------------------------------- execute_request
\* what session.request can do: answer with a response, or raise
Response(status, reason) ==
    [kind |-> "response", status |-> status, reason |-> reason, type |-> "ClientResponse"]
Failure(type) == [kind |-> "raise", status |-> 0, reason |-> "", type |-> type]

TransportResults ==
    {Response(st, r) : st \in Statuses, r \in Reasons} \cup {Failure(f) : f \in TransportFailures}

\* the answers of the transport used where the sessions' life cycle is explored
SampleResults == {Response(200, "OK"), Response(404, "Not Found"), Failure("TimeoutError")}

\* the exception object session.request raised
TransportError(t) ==
    [type |-> t.type, kind |-> "transport", status |-> 0, prefix |-> "", reason |-> ""]

\* ClientResponseError(status=response.status, message=error_message), raised in the
\* branch of the named error class; the message is prefix + "<status> <reason>"
ResponseError(kind, prefix, status, reason) ==
    [type |-> "ClientResponseError", kind |-> kind, status |-> status,
     prefix |-> prefix, reason |-> reason]

LogEntry(level, event) == [level |-> level, component |-> "RequestManager", event |-> event]

\* the chain without its 403 branch
ClassifyNoForbidden(status, reason) ==
    IF status = 401
    THEN [raises |-> TRUE,
          error |-> ResponseError("AuthenticationError", "Authentication failed: ", status, reason),
          entry |-> LogEntry("error", "Authentication failed")]
    ELSE IF 400 <= status /\ status < 500
    THEN [raises |-> TRUE,
          error |-> ResponseError("ClientError", "", status, reason),
          entry |-> LogEntry("warning", "Client error")]
    ELSE IF 500 <= status /\ status < 600
    THEN [raises |-> TRUE,
          error |-> ResponseError("ServerError", "", status, reason),
          entry |-> LogEntry("error", "Server error")]
    ELSE [raises |-> FALSE, error |-> NoError,
          entry |-> LogEntry("info", "Request completed successfully")]

\* a chain whose 4xx branch logs the warning and raises nothing
ClassifyWarnOnly(status, reason) ==
    IF status = 401
    THEN [raises |-> TRUE,
          error |-> ResponseError("AuthenticationError", "Authentication failed: ", status, reason),
          entry |-> LogEntry("error", "Authentication failed")]
    ELSE IF status = 403
    THEN [raises |-> TRUE,
          error |-> ResponseError("AuthorizationError", "Authorization failed: ", status, reason),
          entry |-> LogEntry("error", "Authorization failed")]
    ELSE IF 400 <= status /\ status < 500
    THEN [raises |-> FALSE, error |-> NoError,
          entry |-> LogEntry("warning", "Client error")]
    ELSE IF 500 <= status /\ status < 600
    THEN [raises |-> TRUE,
          error |-> ResponseError("ServerError", "", status, reason),
          entry |-> LogEntry("error", "Server error")]
    ELSE [raises |-> FALSE, error |-> NoError,
          entry |-> LogEntry("info", "Request completed successfully")]

\* the if / elif chain on response.status: the error raised and its log entry,
\* or no error for a status no branch matches
Classify(status, reason) ==
    IF status = 401
    THEN [raises |-> TRUE,
          error |-> ResponseError("AuthenticationError", "Authentication failed: ", status, reason),
          entry |-> LogEntry("error", "Authentication failed")]
    ELSE IF status = 403
    THEN [raises |-> TRUE,
          error |-> ResponseError("AuthorizationError", "Authorization failed: ", status, reason),
          entry |-> LogEntry("error", "Authorization failed")]
    ELSE IF 400 <= status /\ status < 500
    THEN [raises |-> TRUE,
          error |-> ResponseError("ClientError", "", status, reason),
          entry |-> LogEntry("warning", "Client error")]
    ELSE IF 500 <= status /\ status < 600
    THEN [raises |-> TRUE,
          error |-> ResponseError("ServerError", "", status, reason),
          entry |-> LogEntry("error", "Server error")]
    ELSE [raises |-> FALSE, error |-> NoError,
          entry |-> LogEntry("info", "Request completed successfully")]

\* exception classes each except clause catches (aiohttp's class hierarchy:
\* ClientConnectorSSLError is a ClientConnectionError, ClientResponseError is not)
ExceptEntry(type) ==
    IF type = "ClientConnectorSSLError"
    THEN LogEntry("error", "SSL certificate validation error")
    ELSE IF type = "ClientConnectionError"
    THEN LogEntry("error", "Connection error")
    ELSE IF type = "TimeoutError"
    THEN LogEntry("error", "Request timeout")
    ELSE LogEntry("critical", "Unexpected error during request")

\* an except clause that raises a new exception in place of the caught one
ReraiseWrapped(e) == [e EXCEPT !.type = "RequestError"]

\* the except clauses: log, then "raise e"
Reraise(e) == e

\* number of times execute_request calls session.request for one transport result
Attempts(t) == 1

\* an execute_request without its request-start entry
StartLogNone == <<>>

\* the entries logged before session.request is invoked
StartLog == <<LogEntry("info", "Executing request")>>

\* execute_request with a resolved session, for the transport result t
ExecuteOutcome(t) ==
    LET start == StartLog
    IN  IF t.kind = "raise"
        THEN [outcome |-> "raised", response |-> NoResult,
              raised |-> Reraise(TransportError(t)),
              log |-> Append(start, ExceptEntry(t.type))]
        ELSE LET c == Classify(t.status, t.reason)
                 got == Append(start, LogEntry("info", "Received response"))
             IN  IF c.raises
                 THEN [outcome |-> "raised", response |-> NoResult,
                       raised |-> Reraise(c.error),
                       log |-> got \o <<c.entry, ExceptEntry(c.error.type)>>]
                 ELSE [outcome |-> "returned", response |-> t, raised |-> NoError,
                       log |-> Append(got, c.entry)]

\* an _ensure_session that lets a missing session through
EnsureSessionNeverRaises(s) == FALSE

\* _ensure_session: RuntimeError("No session available ...") when session is None
EnsureSessionRaises(s) == s = None

NoSessionError ==
    [type |-> "RuntimeError", kind |-> "ConfigurationError", status |-> 0,
     prefix |-> "No session available", reason |-> ""]

\* RequestManager.execute_request(), the transport answering with one of results
ExecuteRequest(m, results) ==
    /\ bound[m] # "unbuilt"
    /\ IF EnsureSessionRaises(session[m])
       THEN last' = [Op("execute_request", m) EXCEPT !.outcome = "raised",
                                                     !.raised = NoSessionError]
       ELSE \E t \in results :
              LET o == ExecuteOutcome(t)
              IN  last' = [Op("execute_request", m) EXCEPT
                             !.outcome = o.outcome, !.transport = t,
                             !.response = o.response, !.raised = o.raised,
                             !.calls = Attempts(t), !.target = session[m],
                             !.exc = (session[m] \in closed), !.log = o.log,
                             !.call = BuildCall(config[requestData[m]],
                                                Headers(requestData[m])),
                             !.logged = Len(StartLog)]
    /\ UNCHANGED sessionVars
    /\ UNCHANGED managerVars
    /\ UNCHANGED modelVars

\* ---------------------------------------------------------------- RequestHandler (grpy)
\* the base_url of the handler's RequestModel as handed to urljoin: the validated
\* absolute URL, written as a string
HandlerBaseUrl(cfg) == UrlStr(cfg.base_url)

\* RequestHandler.execute_request: the arguments of session.request
HandlerCall(cfg, hdrs) ==
    [method |-> cfg.method, url |-> UrlJoin(HandlerBaseUrl(cfg), cfg.endpoint),
     params |-> cfg.params, headers |-> hdrs, timeout |-> cfg.timeout,
     json |-> IF cfg.data.present THEN cfg.data ELSE NoData]

\* RequestHandler.execute_request: the status chain and the except clauses, which
\* re-raise what they catch
HandlerOutcome(t) ==
    IF t.kind = "raise"
    THEN [outcome |-> "raised", response |-> NoResult,
          raised |-> [type |-> t.type, kind |-> "transport", status |-> 0,
                      prefix |-> "", reason |-> ""],
          calls |-> 1]
    ELSE IF t.status = 401
    THEN [outcome |-> "raised", response |-> NoResult,
          raised |-> [type |-> "ClientResponseError", kind |-> "AuthenticationError",
                      status |-> t.status, prefix |-> "Authentication failed: ",
                      reason |-> t.reason],
          calls |-> 1]
    ELSE IF t.status = 403
    THEN [outcome |-> "raised", response |-> NoResult,
          raised |-> [type |-> "ClientResponseError", kind |-> "AuthorizationError",
                      status |-> t.status, prefix |-> "Authorization failed: ",
                      reason |-> t.reason],
          calls |-> 1]
    ELSE IF 400 <= t.status /\ t.status < 500
    THEN [outcome |-> "raised", response |-> NoResult,
          raised |-> [type |-> "ClientResponseError", kind |-> "ClientError",
                      status |-> t.status, prefix |-> "", reason |-> t.reason],
          calls |-> 1]
    ELSE IF 500 <= t.status /\ t.status < 600
    THEN [outcome |-> "raised", response |-> NoResult,
          raised |-> [type |-> "ClientResponseError", kind |-> "ServerError",
                      status |-> t.status, prefix |-> "", reason |-> t.reason],
          calls |-> 1]
    ELSE [outcome |-> "returned", response |-> t, raised |-> NoError, calls |-> 1]

\* ---------------------------------------------------------------- RequestModel operations
\* pydantic's ValidationError, raised by RequestModel(...) when a field is rejected
ValidationError ==
    [type |-> "ValidationError", kind |-> "ValidationError", status |-> 0,
     prefix |-> "", reason |-> ""]

\* the field constraints checked by super().__init__(**data)
Validates(f) == ValidMethod(f.method) /\ ValidTimeout(f.timeout)

\* RequestModel(**f): the headers are merged first, then the fields are validated;
\* objects are constructed into the slots in order
Construct(c, f) ==
    /\ ~config[c].built
    /\ \A d \in Configs : d < c => config[d].built
    /\ IF Validates(f)
       THEN /\ config' = [config EXCEPT ![c] = Built(f, defaultHeaders)]
            /\ last' = [Op("construct", c) EXCEPT !.input = f, !.outcome = "returned"]
       ELSE /\ last' = [Op("construct", c) EXCEPT !.input = f, !.outcome = "raised",
                                                  !.raised = ValidationError]
            /\ UNCHANGED config
    /\ UNCHANGED defaultHeaders
    /\ UNCHANGED sessionVars
    /\ UNCHANGED managerVars

\* RequestModel.update_headers(h): falsy headers are replaced by the DEFAULT_HEADERS
\* object itself; otherwise the dictionary the attribute refers to is updated in place
UpdateHeaders(c, h) ==
    /\ config[c].built
    /\ IF DOMAIN Headers(c) = {}
       THEN /\ config' = [config EXCEPT ![c].headersRef = "DEFAULT_HEADERS",
                                        ![c].headers = EmptyMap]
            /\ UNCHANGED defaultHeaders
       ELSE IF config[c].headersRef = "own"
       THEN /\ config' = [config EXCEPT ![c].headers = Overlay(config[c].headers, h)]
            /\ UNCHANGED defaultHeaders
       ELSE /\ defaultHeaders' = Overlay(defaultHeaders, h)
            /\ UNCHANGED config
    /\ last' = [Op("update_headers", c) EXCEPT !.input = [NoFields EXCEPT !.headers = h],
                                               !.before = Headers(c)]
    /\ UNCHANGED sessionVars
    /\ UNCHANGED managerVars

\* the caller assigns an empty dictionary to the headers field (the model is not
\* frozen and assignments are not validated)
ClearHeaders(c) ==
    /\ config[c].built
    /\ DOMAIN Headers(c) # {}
    /\ config' = [config EXCEPT ![c].headers = EmptyMap, ![c].headersRef = "own"]
    /\ last' = [Op("clear_headers", c) EXCEPT !.before = Headers(c)]
    /\ UNCHANGED defaultHeaders
    /\ UNCHANGED sessionVars
    /\ UNCHANGED managerVars

\* ---------------------------------------------------------------- specification
Init ==
    /\ nextId = 1
    /\ closed = {}
    /\ closeInvokers = [s \in SessionIds |-> {}]
    /\ external = {}
    /\ callerHeld = {}
    /\ sharedSession = None
    /\ taskPc = [t \in Tasks |-> "idle"]
    /\ sharedReturned = None
    /\ bound = [m \in Managers |-> "unbuilt"]
    /\ supplied = [m \in Managers |-> None]
    /\ session = [m \in Managers |-> None]
    /\ ownsSession = [m \in Managers |-> FALSE]
    /\ exitStack = [m \in Managers |-> NoStack]
    /\ depth = [m \in Managers |-> 0]
    /\ nested = [m \in Managers |-> FALSE]
    /\ requestData = [m \in Managers |-> None]
    /\ config = [c \in Configs |->
                   IF c = 1 THEN Built(FixtureFields, DEFAULT_HEADERS) ELSE NoConfig]
    /\ defaultHeaders = DEFAULT_HEADERS
    /\ handed = [t \in Tasks |-> None]
    /\ sessionOpts = [s \in SessionIds |-> NoArgs]
    /\ last = NoOp

Next ==
    \/ CreateSession
    \/ GetSharedSession
    \/ \E t \in Tasks : CloseSharedBegin(t)
    \/ \E t \in Tasks : CloseSharedEnd(t)
    \/ \E s \in SessionIds : CallerClose(s)
    \/ \E m \in Managers, s \in {None} \cup SessionIds : NewRequestManager(m, s)
    \/ \E m \in Managers, s \in {None} \cup SessionIds, u \in BOOLEAN :
          CreateRequestManager(m, s, u)
    \/ \E m \in Managers : CreateRequestManagerWithSharedSession(m)
    \/ \E m \in Managers : CreateRequestManagerWithNewSession(m)
    \/ \E m \in Managers : Aenter(m)
    \/ \E m \in Managers, exc \in BOOLEAN : Aexit(m, exc)
    \/ \E m \in Managers : ExecuteRequest(m, SampleResults)

Spec == Init /\ [][Next]_vars

\* execute_request against every transport answer, on managers built by the caller
NextExec ==
    \/ CreateSession
    \/ \E s \in SessionIds : CallerClose(s)
    \/ \E m \in Managers, s \in {None} \cup SessionIds : NewRequestManager(m, s)
    \/ \E m \in Managers : Aenter(m)
    \/ \E m \in Managers, exc \in BOOLEAN : Aexit(m, exc)
    \/ \E m \in Managers : ExecuteRequest(m, TransportResults)

SpecExec == Init /\ [][NextExec]_vars

\* the RequestModel field values constructions are tried with
MethodInputs == VALID_METHODS \cup {"get", "Post", "TRACE", "OPTIONS", ""}
TimeoutInputs == {-10, 0, 1, DefaultTimeout}
ConfigInputs ==
    {[FixtureFields EXCEPT !.method = v, !.timeout = t] :
        v \in MethodInputs, t \in TimeoutInputs}
    \cup {[FixtureFields EXCEPT !.method = "POST", !.data = d] :
            d \in {Data(EmptyMap), Data(Map({"name"}, "x"))}}
    \cup {[FixtureFields EXCEPT !.params = Map({"page"}, "1")],
          [FixtureFields EXCEPT !.headers = Map({"X-Custom"}, "v")]}

\* construction of RequestModel objects, and their execution by a manager that
\* creates its own session
NextConfig ==
    \/ \E c \in Configs, f \in ConfigInputs : Construct(c, f)
    \/ \E m \in Managers : NewRequestManager(m, None)
    \/ \E m \in Managers : Aenter(m)
    \/ \E m \in Managers : Aexit(m, FALSE)
    \/ \E m \in Managers : ExecuteRequest(m, {Response(200, "OK")})

SpecConfig == Init /\ [][NextConfig]_vars

\* the header dictionaries passed to RequestModel(headers=...) and update_headers
HeaderMaps ==
    {EmptyMap, Map({"X-Custom"}, "v"), Map({"Accept"}, "text/plain"),
     [k \in {"Accept", "X-Custom"} |-> IF k = "Accept" THEN "text/plain" ELSE "w"]}
HeaderInputs == {[FixtureFields EXCEPT !.headers = h] : h \in HeaderMaps}

\* the two header operations of RequestModel
NextHeaders ==
    \/ \E c \in Configs, f \in HeaderInputs : Construct(c, f)
    \/ \E c \in Configs, h \in HeaderMaps : UpdateHeaders(c, h)

SpecHeaders == Init /\ [][NextHeaders]_vars

\* the header operations on objects whose headers the caller may also empty
NextHeadersCleared ==
    \/ NextHeaders
    \/ \E c \in Configs : ClearHeaders(c)

SpecHeadersCleared == Init /\ [][NextHeadersCleared]_vars

\* base URLs and endpoints: with and without a path, with and without a trailing or
\* leading "/"
BaseUrls ==
    {<<Origin>>, <<Origin, "/">>, <<Origin, "/", "api">>, <<Origin, "/", "api", "/">>,
     <<Origin, "/", "api", "/", "v2">>}
Endpoints ==
    {<<>>, <<"v1">>, <<"v1", "/", "resource">>, <<"/", "v1">>,
     <<"/", "v1", "/", "resource">>, <<"v1", "/">>, <<"/">>}
UrlInputs == {[Fields(b) EXCEPT !.endpoint = e] : b \in BaseUrls, e \in Endpoints}

\* execute_request for every base URL and endpoint
NextUrl ==
    \/ \E c \in Configs, f \in UrlInputs : Construct(c, f)
    \/ \E m \in Managers : NewRequestManager(m, None)
    \/ \E m \in Managers : Aenter(m)
    \/ \E m \in Managers : ExecuteRequest(m, {Response(200, "OK")})

SpecUrl == Init /\ [][NextUrl]_vars

\* concurrent tasks getting and closing the shared session, and callers creating
\* sessions of their own and closing sessions they hold
NextShared ==
    \/ CreateSession
    \/ \E t \in Tasks : TaskGetSharedSession(t)
    \/ \E t \in Tasks : CloseSharedBegin(t)
    \/ \E t \in Tasks : CloseSharedEnd(t)
    \/ \E s \in SessionIds : CallerClose(s)

SpecShared == Init /\ [][NextShared]_vars

\* the timeouts and options get_shared_session is called with
ArgTimeouts == {DefaultTimeout, 50}
ArgOptions == {EmptyMap, Map({"limit"}, "10")}

\* the shared session got with varying arguments, closed by close_shared_session
\* and by its holders
NextSharedArgs ==
    \/ \E to \in ArgTimeouts, o \in ArgOptions : GetSharedSessionWith(to, o)
    \/ \E t \in Tasks : CloseSharedBegin(t)
    \/ \E t \in Tasks : CloseSharedEnd(t)
    \/ \E s \in SessionIds : CallerClose(s)

SpecSharedArgs == Init /\ [][NextSharedArgs]_vars

\* the RequestModel objects both executors are run with
CompareInputs ==
    {FixtureFields,
     [FixtureFields EXCEPT !.method = "POST", !.data = Data(Map({"name"}, "x"))],
     [FixtureFields EXCEPT !.method = "PUT", !.data = Data(EmptyMap)],
     [Fields(<<Origin, "/", "api">>) EXCEPT !.endpoint = <<"v1", "/", "resource">>],
     [Fields(<<Origin>>) EXCEPT !.endpoint = <<"/", "v1">>, !.timeout = 50,
                                !.params = Map({"page"}, "1"),
                                !.headers = Map({"X-Custom"}, "v")]}

\* execute_request on managers with a supplied session, for every transport answer
NextCompare ==
    \/ CreateSession
    \/ \E c \in Configs, f \in CompareInputs : Construct(c, f)
    \/ \E m \in Managers, s \in SessionIds : NewRequestManager(m, s)
    \/ \E m \in Managers : ExecuteRequest(m, TransportResults)

SpecCompare == Init /\ [][NextCompare]_vars

\* ---------------------------------------------------------------- properties
Executed == last.op = "execute_request"
Answered == Executed /\ last.transport.kind = "response"
RaisedAs(kind, prefix) ==
    /\ last.outcome = "raised"
    /\ last.response = NoResult
    /\ last.raised.type = "ClientResponseError"
    /\ last.raised.kind = kind
    /\ last.raised.prefix = prefix
    /\ last.raised.status = last.transport.status
    /\ last.raised.reason = last.transport.reason

\* C1: every status the transport answers with is classified: 200-299 returns the
\* response unmodified; 401 raises the authentication error, message "Authentication
\* failed: <status> <reason>"; 403 the authorization error, message "Authorization
\* failed: <status> <reason>"; any other 400-499 the client error and 500-599 the
\* server error, both with message "<status> <reason>"; every error raised carries
\* the status of the response.
C1_StatusClassification ==
    Answered =>
        LET st == last.transport.status
        IN  /\ (200 <= st /\ st <= 299) =>
                  /\ last.outcome = "returned"
                  /\ last.response = last.transport
                  /\ last.raised = NoError
            /\ st = 401 => RaisedAs("AuthenticationError", "Authentication failed: ")
            /\ st = 403 => RaisedAs("AuthorizationError", "Authorization failed: ")
            /\ (400 <= st /\ st <= 499 /\ st \notin {401, 403}) => RaisedAs("ClientError", "")
            /\ (500 <= st /\ st <= 599) => RaisedAs("ServerError", "")
            /\ last.outcome = "raised" => last.raised.status = st

C1_Witness ==
    /\ Answered
    /\ last.transport.status = 401
    /\ last.raised.prefix = "Authentication failed: "
    /\ last.raised.reason = "Internal Server Error"

\* C2: execute_request returns a response only when its status is in 200-299; every
\* other status (1xx, 3xx and >= 600 included) raises instead of returning.
C2_OnlySuccessReturns ==
    (Executed /\ last.outcome = "returned") =>
        (200 <= last.response.status /\ last.response.status <= 299)

\* C6: a failure raised by the transport (TLS, connection, timeout or anything else)
\* leaves execute_request as that same error, not wrapped, not swallowed, not turned
\* into a response; session.request is invoked exactly once per execute_request that
\* has a resolved session.
C6_TransportFailurePropagates ==
    /\ (Executed /\ last.transport.kind = "raise") =>
          /\ last.outcome = "raised"
          /\ last.raised = TransportError(last.transport)
          /\ last.response = NoResult
    /\ (Executed /\ last.target # None) => last.calls = 1

C6_Witness ==
    /\ Executed
    /\ last.transport = Failure("ClientConnectorSSLError")
    /\ last.raised.type = "ClientConnectorSSLError"
    /\ last.calls = 1

ByManager(m) == <<"RequestManager", m>>
BySessionManager == <<"SessionManager", 0>>
ManagerOps == {"aenter", "execute_request", "aexit"}

\* C3: a manager constructed with a caller-supplied session never invokes close on
\* that session, whatever is entered, executed and exited (an exit that follows a
\* raised error included), and its session reference stays that same session.
C3_SuppliedSessionNeverClosed ==
    \A m \in Managers :
        bound[m] = "supplied" =>
            /\ session[m] = supplied[m]
            /\ ByManager(m) \notin closeInvokers[supplied[m]]
            /\ ~ownsSession[m]

C3_Witness ==
    \E m \in Managers :
        /\ bound[m] = "supplied"
        /\ last.op = "aexit" /\ last.who = m /\ last.exc
        /\ depth[m] = 0
        /\ session[m] = supplied[m]
        /\ session[m] \in external

\* C4: a manager constructed without a session and entered once holds, for as long
\* as that scope lasts, an open session it created itself and owns; when the scope
\* exits, that session has been closed and the manager's reference is None.
C4_InScope(m) ==
    /\ session[m] # None
    /\ session[m] \notin closed
    /\ ownsSession[m]
    /\ session[m] \notin callerHeld \cup {sharedSession}
    /\ exitStack[m] = Stack(<<session[m]>>)

C4_SelfOwnedSessionScoped ==
    /\ [](\A m \in Managers :
            (bound[m] = "none" /\ depth[m] = 1 /\ ~nested[m]) => C4_InScope(m))
    /\ [][\A m \in Managers :
            (bound[m] = "none" /\ depth[m] = 1 /\ ~nested[m] /\ depth'[m] = 0) =>
                /\ session[m] \in closed'
                /\ ByManager(m) \in closeInvokers'[session[m]]
                /\ session'[m] = None]_vars

C4_Witness ==
    \E m \in Managers :
        /\ bound[m] = "none"
        /\ last.op = "aexit" /\ last.who = m
        /\ depth[m] = 0
        /\ last.target # None
        /\ closeInvokers[last.target] = {ByManager(m)}
        /\ session[m] = None

\* C5: execute_request on a manager with no resolved session (constructed without
\* one and outside its scope, also after its scope has exited) raises the
\* "No session available" error at once and session.request is not invoked.
C5_NoSessionNoCall ==
    \A m \in Managers :
        (Executed /\ last.who = m /\ (session[m] = None \/ (bound[m] = "none" /\ depth[m] = 0))) =>
            /\ last.outcome = "raised"
            /\ last.raised = NoSessionError
            /\ last.calls = 0
            /\ last.transport = NoResult
            /\ last.log = <<>>

C5_Witness ==
    \E m \in Managers, s \in SessionIds :
        /\ Executed /\ last.who = m
        /\ bound[m] = "none" /\ depth[m] = 0
        /\ ByManager(m) \in closeInvokers[s]
        /\ last.raised.type = "RuntimeError"

\* C7: get_shared_session calls with no close in between return the identical
\* instance and construct a session only on the first call; once
\* close_shared_session has closed that instance, the next call constructs and
\* returns a new one, different from the closed one.
C7_SharedSessionSingleton ==
    [][last'.op = "get_shared_session" =>
         /\ (sharedReturned # None /\ sharedReturned \notin closed
               /\ sharedSession = sharedReturned) =>
                (last'.ret = sharedReturned /\ nextId' = nextId /\ ~last'.created)
         /\ sharedSession = None => (last'.created /\ nextId' = nextId + 1)
         /\ (sharedReturned # None /\ BySessionManager \in closeInvokers[sharedReturned]) =>
                /\ last'.ret # sharedReturned
                /\ last'.ret \notin Created
                /\ last'.ret \notin closed'
                /\ last'.created
         /\ sharedSession' = last'.ret]_vars

C7_Witness ==
    /\ last.op = "get_shared_session"
    /\ last.created
    /\ last.target # None
    /\ BySessionManager \in closeInvokers[last.target]
    /\ last.ret # last.target
    /\ sharedSession = last.ret

\* C8: close_shared_session invokes the session's close exactly when a shared
\* session is stored and reports open, and clears the stored reference exactly when
\* it invoked that close; with nothing stored, or the stored session already closed,
\* it does not raise, invokes no close and leaves the stored reference as it was.
C8_CloseSharedSession ==
    [][\A t \in Tasks :
         LET acts == last'.who = t /\ last'.op \in {"close_shared_begin", "close_shared_noop"}
             invoked == /\ sharedSession # None
                        /\ closeInvokers'[sharedSession] # closeInvokers[sharedSession]
             resumes == taskPc[t] = "close_await" /\ taskPc'[t] = "idle"
         IN  /\ acts => (invoked <=> (sharedSession # None /\ sharedSession \notin closed))
             /\ (acts /\ invoked) =>
                   (taskPc'[t] = "close_await" /\ sharedSession \in closed')
             /\ (acts /\ ~invoked) =>
                   /\ taskPc'[t] = "idle"
                   /\ sharedSession' = sharedSession
                   /\ closed' = closed
                   /\ closeInvokers' = closeInvokers
                   /\ last'.outcome # "raised"
             /\ resumes => sharedSession' = None
             /\ (last'.who = t /\ last'.op = "close_shared_end") => resumes]_vars

C8_Witness ==
    /\ last.op = "close_shared_noop"
    /\ sharedSession # None
    /\ sharedSession \in closed
    /\ closeInvokers[sharedSession] = {<<"caller", 0>>}

\* C9: every create_session call returns an instance distinct from every session
\* that existed before and from the stored shared session, and leaves the stored
\* shared-session reference unchanged.
C9_CreateSessionAlwaysNew ==
    [][last'.op = "create_session" =>
         /\ last'.ret \notin Created
         /\ last'.ret # sharedSession
         /\ last'.ret # None
         /\ last'.ret \notin closed'
         /\ sharedSession' = sharedSession]_vars

C9_Witness ==
    /\ last.op = "create_session"
    /\ sharedSession # None
    /\ sharedSession \notin closed
    /\ last.ret # sharedSession

\* C10: managers bound to the shared session by the factory never close it: each
\* enter, execute and exit of such a manager leaves an open stored shared session
\* open and stored, and get_shared_session would still return that instance.
C10_SharedSessionSurvivesManagers ==
    /\ [](\A m \in Managers :
            bound[m] = "shared" => ByManager(m) \notin closeInvokers[supplied[m]])
    /\ [][\A m \in Managers :
            (/\ bound[m] = "shared"
             /\ last'.who = m /\ last'.op \in ManagerOps
             /\ sharedSession # None /\ sharedSession \notin closed) =>
                /\ sharedSession' = sharedSession
                /\ sharedSession \notin closed'
                /\ SharedResult(sharedSession', closed', nextId') = sharedSession]_vars

C10_Witness ==
    \E m \in Managers :
        /\ bound[m] = "shared"
        /\ last.op = "aexit" /\ last.who = m
        /\ depth[m] = 0
        /\ session[m] = sharedSession
        /\ sharedSession \notin closed
        /\ SharedResult(sharedSession, closed, nextId) = supplied[m]

\* C11: a manager built by create_request_manager_with_new_session owns the session
\* the factory created for it: when the manager's scope exits, that session has
\* been closed.
C11_NewSessionClosedOnExit ==
    \A m \in Managers :
        (bound[m] = "new" /\ last.op = "aexit" /\ last.who = m /\ depth[m] = 0) =>
            /\ supplied[m] \in closed
            /\ ByManager(m) \in closeInvokers[supplied[m]]

Constructed == last.op = "construct"

\* C12: constructing a RequestModel succeeds, as far as its method goes, exactly
\* when the method is one of GET, POST, PUT, DELETE, PATCH, HEAD: any other method
\* string (lower-case spellings included) fails with ValidationError and produces
\* no object; a listed method with an accepted timeout produces an object carrying
\* that method.
C12_MethodValidation ==
    Constructed =>
        LET f == last.input
            listed == f.method \in {"GET", "POST", "PUT", "DELETE", "PATCH", "HEAD"}
        IN  /\ last.outcome = "returned" => listed
            /\ ~listed =>
                  /\ last.outcome = "raised"
                  /\ last.raised.type = "ValidationError"
                  /\ ~config[last.who].built
            /\ (listed /\ f.timeout > 0) =>
                  /\ last.outcome = "returned"
                  /\ config[last.who].built
                  /\ config[last.who].method = f.method

C12_Witness ==
    /\ Constructed
    /\ last.input.method = "get"
    /\ last.input.timeout > 0
    /\ last.outcome = "raised"
    /\ ~config[last.who].built

\* C13: a timeout <= 0 makes construction fail with ValidationError; a timeout > 0
\* (with a valid method) constructs an object whose timeout is the supplied value,
\* that value never changes afterwards, and it is the timeout of every transport
\* call execute_request issues for the object.
C13_TimeoutValidation ==
    /\ [](Constructed =>
            LET f == last.input
            IN  /\ f.timeout <= 0 =>
                      /\ last.outcome = "raised"
                      /\ last.raised.type = "ValidationError"
                      /\ ~config[last.who].built
                /\ (f.timeout > 0 /\ f.method \in VALID_METHODS) =>
                      /\ last.outcome = "returned"
                      /\ config[last.who].timeout = f.timeout)
    /\ [](\A m \in Managers :
            (Executed /\ last.who = m /\ last.calls = 1) =>
                last.call.timeout = config[requestData[m]].timeout)
    /\ [][\A c \in Configs :
            config[c].built => config'[c].timeout = config[c].timeout]_vars

C13_Witness ==
    /\ Executed
    /\ last.calls = 1
    /\ last.call.timeout = 1
    /\ config[requestData[last.who]].timeout = 1

DefaultKeys == {"Accept", "Content-Type", "User-Agent"}

\* C14: for every header map H given to the constructor, the headers of the
\* constructed object are the defaults {Accept, Content-Type, User-Agent} overlaid
\* with H: each key of H carries H's value (a default is overridden on conflict) and
\* each default key absent from H keeps its default value; nothing else is present.
C14_ConstructMergesHeaders ==
    (Constructed /\ last.outcome = "returned") =>
        LET H == last.input.headers
            got == Headers(last.who)
        IN  /\ DOMAIN got = DefaultKeys \cup DOMAIN H
            /\ \A k \in DOMAIN H : got[k] = H[k]
            /\ \A k \in DefaultKeys \ DOMAIN H :
                  got[k] = IF k = "User-Agent" THEN DEFAULT_USER_AGENT
                           ELSE "application/json"

C14_Witness ==
    /\ Constructed /\ last.outcome = "returned"
    /\ DOMAIN last.input.headers = {"Accept", "X-Custom"}
    /\ Headers(last.who)["Accept"] = "text/plain"
    /\ Headers(last.who)["X-Custom"] = "w"
    /\ Headers(last.who)["Content-Type"] = "application/json"

Updated == last.op = "update_headers"

\* C15: update_headers(newHeaders) on an object whose headers are empty leaves the
\* defaults overlaid with newHeaders (caller values win); on an object with
\* non-empty headers it leaves the previous headers overlaid with newHeaders.
C15_UpdateHeadersMerges ==
    Updated =>
        LET h == last.input.headers
            expected(base) ==
                [k \in DOMAIN base \cup DOMAIN h |-> IF k \in DOMAIN h THEN h[k] ELSE base[k]]
        IN  Headers(last.who) =
                IF DOMAIN last.before = {} THEN expected(DEFAULT_HEADERS)
                ELSE expected(last.before)

Called == Executed /\ last.calls = 1
CalledConfig == config[requestData[last.who]]

\* C16: execute_request calls the URL obtained by joining base_url and endpoint: an
\* endpoint that starts with "/" replaces the path of base_url, any other endpoint
\* is appended (the URL is base_url followed by the endpoint).
C16_UrlJoinAppends ==
    Called =>
        LET base == UrlStr(CalledConfig.base_url)
            ep == CalledConfig.endpoint
        IN  last.call.url =
                IF ep # <<>> /\ ep[1] = "/" THEN <<base[1]>> \o ep ELSE base \o ep

\* C16 (amended): an empty endpoint calls base_url itself; an endpoint that starts
\* with "/" replaces the path of base_url; any other endpoint replaces what follows
\* the last "/" of base_url's path, which is base_url followed by the endpoint
\* exactly when base_url ends with "/".
C16_UrlJoinReplacesLastSegment ==
    Called =>
        LET base == UrlStr(CalledConfig.base_url)
            ep == CalledConfig.endpoint
            n == Len(base)
        IN  /\ ep = <<>> => last.call.url = base
            /\ (ep # <<>> /\ ep[1] = "/") => last.call.url = <<base[1]>> \o ep
            /\ (ep # <<>> /\ ep[1] # "/" /\ base[n] = "/") => last.call.url = base \o ep
            /\ (ep # <<>> /\ ep[1] # "/" /\ base[n] # "/") =>
                  last.call.url = [i \in 1..(n - 1) |-> base[i]] \o ep

C16_Witness ==
    /\ Called
    /\ CalledConfig.base_url = <<Origin, "/", "api">>
    /\ CalledConfig.endpoint = <<"v1", "/", "resource">>
    /\ last.call.url = <<Origin, "/", "v1", "/", "resource">>

\* C17: the exit step runs on the exception path as well: when the scope of a
\* manager is left with an error, a session the manager created for that (single,
\* non-nested) scope is closed and its reference cleared, a session the manager was
\* given is left open, unclosed and referenced, and the error keeps propagating.
C17_ExitOnException ==
    [][\A m \in Managers :
         (last'.op = "aexit" /\ last'.who = m /\ last'.exc) =>
            /\ last'.outcome = "raised"
            /\ exitStack'[m] = NoStack
            /\ (bound[m] = "none" /\ depth[m] = 1 /\ ~nested[m]) =>
                  /\ session[m] # None
                  /\ session[m] \in closed'
                  /\ ByManager(m) \in closeInvokers'[session[m]]
                  /\ session'[m] = None
            /\ bound[m] # "none" =>
                  /\ session'[m] = session[m]
                  /\ session'[m] = supplied[m]
                  /\ closed' = closed
                  /\ closeInvokers' = closeInvokers]_vars

C17_Witness ==
    \E m \in Managers :
        /\ last.op = "aexit" /\ last.who = m /\ last.exc
        /\ last.outcome = "raised"
        /\ bound[m] = "none"
        /\ depth[m] = 0
        /\ session[m] = None
        /\ last.target \in closed

\* C18: the transport call of execute_request carries the object's method, query
\* params, headers and timeout as they are, carries a JSON body exactly when the
\* object's data is not None (an empty dictionary is a body), and execute_request
\* changes no RequestModel.
C18_CallCarriesConfig ==
    /\ [](Called =>
            /\ last.call.method = CalledConfig.method
            /\ last.call.params = CalledConfig.params
            /\ last.call.headers = Headers(requestData[last.who])
            /\ last.call.timeout = CalledConfig.timeout
            /\ last.call.json.present <=> CalledConfig.data.present
            /\ CalledConfig.data.present => last.call.json.body = CalledConfig.data.body)
    /\ [][last'.op = "execute_request" =>
            (config' = config /\ defaultHeaders' = defaultHeaders)]_vars

C18_Witness ==
    /\ Called
    /\ CalledConfig.method = "POST"
    /\ CalledConfig.data = Data(EmptyMap)
    /\ last.call.json.present
    /\ last.call.method = "POST"
    /\ DOMAIN last.call.headers = DefaultKeys

\* C19: get_shared_session runs as one step of the event loop, so however the
\* calls of concurrent tasks are interleaved, the calls made with no close in
\* between hand the identical instance to every task, and only the first of them
\* constructs a session.
C19_ConcurrentGettersShareOne ==
    /\ [](\A t, u \in Tasks :
            (handed[t] # None /\ handed[u] # None) => handed[t] = handed[u])
    /\ [](\A t \in Tasks : handed[t] # None =>
            (handed[t] = sharedSession /\ handed[t] \notin closed))
    /\ [][\A t, u \in Tasks :
            (last'.op = "get_shared_session" /\ last'.who = t /\ handed[u] # None) =>
                /\ last'.ret = handed[u]
                /\ ~last'.created
                /\ nextId' = nextId]_vars

C19_Witness ==
    /\ last.op = "get_shared_session"
    /\ ~last.created
    /\ \A t \in Tasks : handed[t] = sharedSession
    /\ sharedSession # None
    /\ \E s \in SessionIds : BySessionManager \in closeInvokers[s]

\* C20: close_shared_session clears only the reference to the session it closed: a
\* session that get_shared_session created and stored while the close was suspended
\* is still stored when the close completes, and no open session is ever dropped
\* from the stored reference.
C20_CloseKeepsNewerSession ==
    [][/\ \A t \in Tasks :
            (taskPc[t] = "close_await" /\ taskPc'[t] = "idle"
               /\ sharedSession # None /\ sharedSession \notin closed) =>
                sharedSession' = sharedSession
       /\ (sharedSession # None /\ sharedSession \notin closed') =>
                sharedSession' = sharedSession]_vars

CloseOps == {"close_shared_begin", "close_shared_noop", "close_shared_end"}

\* C21: however two or more concurrent close_shared_session calls are interleaved
\* (each suspending at the close it invoked), close is invoked on a shared session
\* only if nobody has invoked close on it before, so at most once per session, and
\* no call raises.
C21_ConcurrentCloseOnce ==
    [][\A t \in Tasks :
         (last'.who = t /\ last'.op \in CloseOps) =>
            /\ last'.outcome # "raised"
            /\ last'.raised = NoError
            /\ last'.op = "close_shared_begin" =>
                  /\ last'.calls = 1
                  /\ last'.target = sharedSession
                  /\ sharedSession # None
                  /\ sharedSession \notin closed
                  /\ closeInvokers[sharedSession] = {}
                  /\ closeInvokers'[sharedSession] = {BySessionManager}
            /\ last'.op # "close_shared_begin" => closeInvokers' = closeInvokers]_vars

C21_Witness ==
    \E t, u \in Tasks :
        /\ t # u
        /\ taskPc[t] = "close_await"
        /\ last.op = "close_shared_noop" /\ last.who = u
        /\ last.target # None
        /\ closeInvokers[last.target] = {BySessionManager}
        /\ sharedSession = last.target

\* C22: whatever sequence of enters and exits a manager constructed without a
\* session goes through (a second enter inside a scope, a new enter after an exit),
\* a session it created is closed by the time the manager drops its reference to
\* it, and none is open once all its scopes have exited.
C22_CreatedSessionsClosed ==
    [][\A m \in Managers :
         (bound[m] = "none" /\ session[m] # None /\ session'[m] = None) =>
            session[m] \in closed']_vars

\* C23: execute_request never invokes session.request on a session that reports
\* closed, also for a manager bound to the shared session after
\* close_shared_session has closed it, or to a session its caller has closed.
C23_RequestOnlyOnOpenSession ==
    (Executed /\ last.calls > 0) => last.target \notin closed

\* C24: get_shared_session never returns a session that reports closed at the
\* moment it returns, whoever closed it: a stored session found closed (by
\* close_shared_session or by a holder of the session) is replaced by a newly
\* constructed one, which is stored and returned.
C24_NeverReturnsClosed ==
    [][last'.op = "get_shared_session" =>
         /\ last'.ret # None
         /\ last'.ret \notin closed'
         /\ sharedSession' = last'.ret
         /\ (sharedSession # None /\ sharedSession \in closed) =>
               /\ last'.created
               /\ last'.ret # sharedSession
               /\ last'.ret \notin Created]_vars

C24_Witness ==
    /\ last.op = "get_shared_session"
    /\ last.created
    /\ last.target # None
    /\ closeInvokers[last.target] = {<<"caller", 0>>}
    /\ last.target \in closed
    /\ last.ret \notin closed
    /\ sharedSession = last.ret

\* C25: while an open shared session is stored, get_shared_session(timeout,
\* options) ignores its arguments: it returns the stored instance, constructs no
\* session, and the timeout and options of that session stay as the call that
\* created it fixed them (no session's arguments change after its construction).
C25_ArgumentsIgnoredWhileOpen ==
    /\ [][(last'.op = "get_shared_session"
             /\ sharedSession # None /\ sharedSession \notin closed) =>
                /\ last'.ret = sharedSession
                /\ ~last'.created
                /\ nextId' = nextId
                /\ sessionOpts' = sessionOpts]_vars
    /\ [][\A s \in SessionIds : s \in Created => sessionOpts'[s] = sessionOpts[s]]_vars
    /\ [][(last'.op = "get_shared_session" /\ last'.created) =>
                sessionOpts'[last'.ret] = last'.args]_vars

C25_Witness ==
    /\ last.op = "get_shared_session"
    /\ ~last.created
    /\ last.ret = sharedSession
    /\ sharedSession \notin closed
    /\ last.args = [timeout |-> 50, options |-> Map({"limit"}, "10")]
    /\ sessionOpts[sharedSession] = [timeout |-> DefaultTimeout, options |-> EmptyMap]

LogIndexes(levels) == {i \in 1..Len(last.log) : last.log[i].level \in levels}

\* C26: an error raised by status classification (401, 403, other 4xx, 5xx) is
\* logged exactly once, at the severity of its classification, and never also as an
\* unexpected error at critical severity; the critical entry occurs only for a
\* failure that is neither a classified status error nor a TLS, connection or
\* timeout failure.
C26_ClassifiedErrorLoggedOnce ==
    (Executed /\ last.calls = 1) =>
        /\ (last.outcome = "raised" /\ last.raised.type = "ClientResponseError") =>
              /\ Cardinality(LogIndexes({"warning", "error", "critical"})) = 1
              /\ LogIndexes({"critical"}) = {}
        /\ LogIndexes({"critical"}) # {} =>
              /\ last.transport.kind = "raise"
              /\ last.transport.type \notin
                    {"ClientConnectorSSLError", "ClientConnectionError", "TimeoutError"}

\* C27: for every execute_request that issues a call the log is written in this
\* order: the request-start entry before session.request is invoked, the
\* response-receipt entry right after the transport has returned a response (none
\* when it raised), and an error entry as the last thing before an error is
\* raised; every entry carries the component name "RequestManager".
C27_LogOrder ==
    (Executed /\ last.calls = 1) =>
        LET log == last.log
            n == last.logged
        IN  /\ n = 1
            /\ n <= Len(log)
            /\ log[n].level = "info" /\ log[n].event = "Executing request"
            /\ last.transport.kind = "response" =>
                  /\ Len(log) > n
                  /\ log[n + 1].level = "info" /\ log[n + 1].event = "Received response"
            /\ last.transport.kind = "raise" =>
                  \A i \in 1..Len(log) : log[i].event # "Received response"
            /\ last.outcome = "raised" =>
                  /\ Len(log) > n
                  /\ log[Len(log)].level \in {"warning", "error", "critical"}
                  /\ last.transport.kind = "response" =>
                        (Len(log) > n + 1
                           /\ log[n + 2].level \in {"warning", "error"})
            /\ last.outcome = "returned" =>
                  \A i \in 1..Len(log) : log[i].level = "info"
            /\ \A i \in 1..Len(log) : log[i].component = "RequestManager"

C27_Witness ==
    /\ Executed /\ last.calls = 1
    /\ last.transport.status = 500
    /\ Len(last.log) > 2
    /\ last.log[1].event = "Executing request"
    /\ last.log[2].event = "Received response"
    /\ last.log[3].event = "Server error"

C29_HeadersKeepDefaultKeys ==
    /\ [](\A c \in Configs :
            config[c].built =>
                /\ DefaultKeys \subseteq DOMAIN Headers(c)
                /\ config[c].headersRef = "own")
    /\ [][last'.op = "update_headers" => DOMAIN last'.before # {}]_vars

C29_Witness ==
    /\ Updated
    /\ last.input.headers = Map({"Accept"}, "text/plain")
    /\ "X-Custom" \in DOMAIN last.before
    /\ DOMAIN Headers(last.who) = DefaultKeys \cup {"X-Custom"}
    /\ Headers(last.who)["Accept"] = "text/plain"

\* C30: no sequence of constructions and update_headers calls on one RequestModel
\* (update_headers on an object whose headers have been emptied included) changes
\* DEFAULT_HEADERS or the headers of another RequestModel, and an object
\* constructed afterwards without caller headers gets exactly the original defaults.
C30_DefaultsNeverChange ==
    /\ [](defaultHeaders = DEFAULT_HEADERS)
    /\ []((Constructed /\ last.outcome = "returned" /\ DOMAIN last.input.headers = {}) =>
            Headers(last.who) = DEFAULT_HEADERS)
    /\ [][\A c \in Configs :
            (last'.op = "update_headers" /\ last'.who # c /\ config[c].built) =>
                (IF config'[c].headersRef = "DEFAULT_HEADERS" THEN defaultHeaders'
                 ELSE config'[c].headers) = Headers(c)]_vars

====
